---- MODULE Spec2Model ----
(***************************************************************************)
(* Model of the SMAPE leaderboard service (backend/main.py) and of the     *)
(* PostgreSQL tables it works on (backend/setup_postgres.py).              *)
(*                                                                         *)
(* Every request handler opens its own connection, so a handler is a       *)
(* process whose steps are its SQL statements.  PostgreSQL runs them at    *)
(* READ COMMITTED: a statement reads what is committed when it starts,     *)
(* a transaction's own writes become visible to others at its COMMIT, and  *)
(* an UPDATE or DELETE waits for the row lock of an uncommitted writer.    *)
(*                                                                         *)
(* Numbers.  A score is float(round(x, 2)) and is counted in hundredths.   *)
(* The tables keep it in a REAL (4-byte float) column; psycopg2 reads the  *)
(* column back as the shortest decimal that names the float4, which is the *)
(* score itself up to six significant digits and a neighbour of it beyond. *)
(* NaN is the value the metric yields for a file with an empty cell.       *)
(***************************************************************************)
EXTENDS Integers, FiniteSets, Sequences, Bags, TLC

MAX_SUBMISSIONS_PER_TEAM == 10
ADMIN_TEAM_ID == "admin2025"

\* Bounds of the model.
MaxUploads == 3      \* uploads past the quota check, run one at a time
MaxRaces == 2        \* uploads past the quota check, run concurrently
MaxClock == 1        \* seconds the wall clock may advance

\* The rows of table teams that setup_database inserts.
Teams == {"1234", "4321", "admin2025"}

Procs == {1, 2}

\* The numbers of earlier attempts of team 1234 in the initial states.
Backlogs == {0, MAX_SUBMISSIONS_PER_TEAM - 1}

NoToken == "none"
\* The session tokens of the three teams and one value that is no token.
TokenRows == { [token |-> "tokA", team_id |-> "1234"],
               [token |-> "tokB", team_id |-> "4321"],
               [token |-> "tokAdmin", team_id |-> "admin2025"] }
Cookies == {NoToken, "forged", "tokA", "tokB", "tokAdmin"}
\* Cookies that upload requests are sent with.
UploadCookies == {NoToken, "forged", "tokA", "tokB"}

NaN == -1
\* 1234567.89, a score that has no float4 of its own.
BigScore == 123456789
\* Scores the metric yields on the uploaded files: 8.00, 1234567.89 and NaN.
ScoreVals == {800, BigScore, NaN}

\* Python's x < y on doubles: false as soon as one side is NaN.
Lt(x, y) == x # NaN /\ y # NaN /\ x < y

\* PostgreSQL's order on REAL: NaN is above every number.
PgLe(x, y) == y = NaN \/ (x # NaN /\ x <= y)

\* A double written to a REAL column and read back: float4(8.00) = 8.0
\* reads as 8.0; float4(1234567.89) = 1234567.875 reads as 1234567.9, and
\* so does float4(1234567.9).
ToReal(x) ==
  IF x = NaN THEN NaN
  ELSE IF x = BigScore THEN BigScore + 1
  ELSE x

\* The uploaded files: without the expected column, with a row count that
\* differs from actual.csv and cannot be broadcast to it, with a single row
\* (which numpy broadcasts to the rows of actual.csv), or with the rows of
\* actual.csv; the last two with the score they evaluate to.
Files == { [kind |-> "no_column", score |-> NaN],
           [kind |-> "row_mismatch", score |-> NaN],
           [kind |-> "one_row", score |-> 800] }
         \cup { [kind |-> "ok", score |-> s] : s \in ScoreVals }

\* calculate_smape as far as upload uses it: it raises or returns a score.
calculate_smape(file) ==
  IF file.kind \in {"ok", "one_row"}
  THEN [raised |-> FALSE, score |-> file.score]
  ELSE [raised |-> TRUE, score |-> NaN]

VARIABLES
  clock,               \* datetime.now(), in seconds
  auth_tokens,         \* table auth_tokens: rows [token, team_id]
  submissions,         \* table submissions (the leaderboard)
  team_submissions,    \* table team_submissions, a bag of [team_id, smape]
  submission_history,  \* table submission_history
  pc,                  \* where each upload handler stands
  loc,                 \* the locals of each upload handler
  resp,                \* the last response of each upload handler
  uploads,             \* uploads that got past the quota check so far
  rpc,                 \* where the reset handler stands
  rdel,                \* the rows the reset transaction has deleted
  rresp,               \* the last response of the reset handler
  view,                \* the response of a request that only reads or logs
  issued,              \* the tokens secrets.token_hex has produced so far
  metric               \* a call of calculate_smape: its vectors and result

vars == <<clock, auth_tokens, submissions, team_submissions,
          submission_history, pc, loc, resp, uploads, rpc, rdel, rresp,
          view, issued, metric>>

\* What upload and reset never touch.
aux == <<view, issued, metric>>

db == <<submissions, team_submissions, submission_history>>

None == [id |-> 0]
NoWrite == [op |-> "none"]
NoLocals == [team_id |-> "", score |-> NaN, existing |-> None,
             is_best |-> FALSE, lb_write |-> NoWrite, new_count |-> 0]
NoResp == [kind |-> "none"]
NoDeletes == [lb |-> {}, att |-> EmptyBag, hist |-> {}]
NoView == [kind |-> "none"]
NoMetric == [called |-> FALSE]

Error(msg) == [kind |-> "error", error |-> msg]

\* SELECT COUNT(*) FROM team_submissions WHERE team_id = t
CountAttempts(t) ==
  BagCardinality([r \in {x \in BagToSet(team_submissions) : x.team_id = t}
                    |-> CopiesIn(r, team_submissions)])

\* SELECT ... FROM submissions WHERE "user" = t
EntriesOf(t) == {r \in submissions : r.user = t}

\* The ids a SERIAL column has handed out and something may still refer to.
UsedIds ==
  {r.id : r \in submissions}
    \cup {loc[p].existing.id : p \in Procs}
    \cup {IF loc[p].lb_write.op = "none" THEN 0 ELSE loc[p].lb_write.id : p \in Procs}
    \cup rdel.lb
\* nextval of submissions.id: an id no row has had.
NextId == CHOOSE i \in 1..(Cardinality(UsedIds) + 1) : i \notin UsedIds

\* The rows of submissions on which somebody else holds a row lock.
LockedBy(p) ==
  {loc[q].lb_write.id : q \in {x \in Procs \ {p} : loc[x].lb_write.op = "update"}}
    \cup rdel.lb

\* The database after n uploads, one after the other within one second, of a
\* file that scores 1234567.89 by team 1234: lines 149-161 ran for the first
\* and lines 143-147 and 157-161 for the others (1234567.89 < 1234567.9).
AfterUploads(n) ==
  [lb |-> IF n = 0 THEN {}
          ELSE {[id |-> 1, user |-> "1234", smape |-> ToReal(BigScore),
                 timestamp |-> 0]},
   att |-> IF n = 0 THEN EmptyBag
           ELSE [r \in {[team_id |-> "1234", smape |-> ToReal(BigScore)]}
                   |-> n]]

\* The service with the three teams logged in and either a fresh database or
\* one in which team 1234 has one attempt left.
InitService ==
  /\ clock = 0
  /\ auth_tokens = TokenRows
  /\ \E n \in Backlogs :
       /\ submissions = AfterUploads(n).lb
       /\ team_submissions = AfterUploads(n).att
  /\ submission_history = {}
  /\ pc = [p \in Procs |-> "idle"]
  /\ loc = [p \in Procs |-> NoLocals]
  /\ resp = [p \in Procs |-> NoResp]
  /\ uploads = 0
  /\ rpc = "idle"
  /\ rdel = NoDeletes
  /\ rresp = NoResp
  /\ view = NoView
  /\ issued = {r.token : r \in TokenRows}

Init == InitService /\ metric = NoMetric

\* The wall clock advances.
Tick ==
  /\ clock < MaxClock
  /\ clock' = clock + 1
  /\ UNCHANGED <<aux, auth_tokens, db, pc, loc, resp, uploads, rpc, rdel, rresp>>

\* Line 116 with > in place of >=.
QuotaReached_OffByOne(submission_count) == submission_count > MAX_SUBMISSIONS_PER_TEAM

\* upload, line 116.
QuotaReached(submission_count) == submission_count >= MAX_SUBMISSIONS_PER_TEAM

\* upload, lines 88-122: authentication and the quota check on a first
\* connection, which is closed before the file is read.
UploadBegin(p, auth_token) ==
  /\ pc[p] = "idle"
  /\ LET auth == {a \in auth_tokens : a.token = auth_token} IN
     IF auth_token = NoToken THEN
       /\ resp' = [resp EXCEPT ![p] = Error("Not authenticated")]
       /\ pc' = [pc EXCEPT ![p] = "done"]
       /\ UNCHANGED <<loc, uploads>>
     ELSE IF auth = {} THEN
       /\ resp' = [resp EXCEPT ![p] = Error("Invalid authentication")]
       /\ pc' = [pc EXCEPT ![p] = "done"]
       /\ UNCHANGED <<loc, uploads>>
     ELSE LET team_id == (CHOOSE a \in auth : TRUE).team_id IN
       IF QuotaReached(CountAttempts(team_id)) THEN
         /\ resp' = [resp EXCEPT ![p] = Error("Submission limit reached")]
         /\ pc' = [pc EXCEPT ![p] = "done"]
         /\ UNCHANGED <<loc, uploads>>
       ELSE
         /\ uploads' = uploads + 1
         /\ pc' = [pc EXCEPT ![p] = "evaluate"]
         /\ loc' = [loc EXCEPT ![p] = [NoLocals EXCEPT !.team_id = team_id]]
         /\ UNCHANGED resp
  /\ UNCHANGED <<aux, clock, auth_tokens, db, rpc, rdel, rresp>>

\* upload, lines 124-129 and 176-177: the file is written to a temporary
\* file and scored; an exception of calculate_smape becomes an error response.
UploadEvaluate(p, file) ==
  /\ pc[p] = "evaluate"
  /\ LET r == calculate_smape(file) IN
     IF r.raised THEN
       /\ pc' = [pc EXCEPT ![p] = "done"]
       /\ loc' = [loc EXCEPT ![p] = NoLocals]
       /\ resp' = [resp EXCEPT ![p] = Error(file.kind)]
     ELSE
       /\ pc' = [pc EXCEPT ![p] = "select"]
       /\ loc' = [loc EXCEPT ![p].score = r.score]
       /\ UNCHANGED resp
  /\ UNCHANGED <<aux, clock, auth_tokens, db, uploads, rpc, rdel, rresp>>

\* upload, lines 131-138: the second connection reads the team's leaderboard
\* row; fetchone takes any one row when there are several.
UploadSelectExisting(p) ==
  /\ pc[p] = "select"
  /\ \E existing \in IF EntriesOf(loc[p].team_id) = {} THEN {None}
                     ELSE {[id |-> r.id, smape |-> r.smape] :
                             r \in EntriesOf(loc[p].team_id)} :
       loc' = [loc EXCEPT ![p].existing = existing]
  /\ pc' = [pc EXCEPT ![p] = "write"]
  /\ UNCHANGED <<aux, clock, auth_tokens, db, resp, uploads, rpc, rdel, rresp>>

\* Lines 140-155 with <= in place of < on line 143.
LeaderboardWrite_OrEqual(existing, team_id, score, now, id) ==
  IF existing # None THEN
    IF Lt(score, existing.smape) \/ (score # NaN /\ score = existing.smape) THEN
      [is_best |-> TRUE,
       lb_write |-> [op |-> "update", id |-> existing.id,
                     smape |-> ToReal(score), timestamp |-> now]]
    ELSE [is_best |-> FALSE, lb_write |-> NoWrite]
  ELSE
    [is_best |-> TRUE,
     lb_write |-> [op |-> "insert", id |-> id, user |-> team_id,
                   smape |-> ToReal(score), timestamp |-> now]]

\* What lines 140-155 write to submissions, and is_best.
LeaderboardWrite(existing, team_id, score, now, id) ==
  IF existing # None THEN
    IF Lt(score, existing.smape) THEN
      [is_best |-> TRUE,
       lb_write |-> [op |-> "update", id |-> existing.id,
                     smape |-> ToReal(score), timestamp |-> now]]
    ELSE [is_best |-> FALSE, lb_write |-> NoWrite]
  ELSE
    [is_best |-> TRUE,
     lb_write |-> [op |-> "insert", id |-> id, user |-> team_id,
                   smape |-> ToReal(score), timestamp |-> now]]

\* upload, lines 140-161: UPDATE or INSERT on submissions, then INSERT into
\* team_submissions, all uncommitted.  The UPDATE waits while another
\* transaction holds the lock of the row.
UploadWrite(p) ==
  /\ pc[p] = "write"
  /\ LET w == LeaderboardWrite(loc[p].existing, loc[p].team_id, loc[p].score,
                               clock, NextId) IN
     /\ w.lb_write.op = "update" => w.lb_write.id \notin LockedBy(p)
     /\ loc' = [loc EXCEPT ![p].is_best = w.is_best,
                           ![p].lb_write = w.lb_write]
  /\ pc' = [pc EXCEPT ![p] = "count"]
  /\ UNCHANGED <<aux, clock, auth_tokens, db, resp, uploads, rpc, rdel, rresp>>

\* upload, lines 163-168: the count sees the committed rows and the row this
\* transaction has just inserted.
UploadCount(p) ==
  /\ pc[p] = "count"
  /\ loc' = [loc EXCEPT ![p].new_count = CountAttempts(loc[p].team_id) + 1]
  /\ pc' = [pc EXCEPT ![p] = "commit"]
  /\ UNCHANGED <<aux, clock, auth_tokens, db, resp, uploads, rpc, rdel, rresp>>

\* The same with an UPDATE that has no WHERE id = %s (line 145).
ApplyWrite_NoWhere(table, w) ==
  IF w.op = "insert" THEN
    table \cup {[id |-> w.id, user |-> w.user, smape |-> w.smape,
                 timestamp |-> w.timestamp]}
  ELSE IF w.op = "update" THEN
    {[r EXCEPT !.smape = w.smape, !.timestamp = w.timestamp] : r \in table}
  ELSE table

\* The table submissions after a transaction's write is committed: an UPDATE
\* of a row that is gone changes nothing.
ApplyWrite(table, w) ==
  IF w.op = "insert" THEN
    table \cup {[id |-> w.id, user |-> w.user, smape |-> w.smape,
                 timestamp |-> w.timestamp]}
  ELSE IF w.op = "update" THEN
    {IF r.id = w.id THEN [r EXCEPT !.smape = w.smape, !.timestamp = w.timestamp]
     ELSE r : r \in table}
  ELSE table

\* The row of team_submissions an upload inserts (lines 158-161).
AttemptRow(team_id, score) == [team_id |-> team_id, smape |-> ToReal(score)]

\* Lines 157-161 moved into the branches that set is_best.
AttemptsAfter_OnlyBest(table, team_id, score, is_best) ==
  IF is_best THEN table (+) SetToBag({AttemptRow(team_id, score)}) ELSE table

\* team_submissions once lines 157-161 and 170 have run: the row is inserted
\* whatever is_best is.
AttemptsAfter(table, team_id, score, is_best) ==
  table (+) SetToBag({AttemptRow(team_id, score)})

\* Line 174 with the count taken before the INSERT of line 158.
Remaining_StaleCount(new_count) == MAX_SUBMISSIONS_PER_TEAM - (new_count - 1)

\* upload, line 174.
Remaining(new_count) == MAX_SUBMISSIONS_PER_TEAM - new_count

\* upload, lines 170-175: COMMIT and the response.
UploadCommit(p) ==
  /\ pc[p] = "commit"
  /\ submissions' = ApplyWrite(submissions, loc[p].lb_write)
  /\ team_submissions' =
       AttemptsAfter(team_submissions, loc[p].team_id, loc[p].score, loc[p].is_best)
  /\ resp' = [resp EXCEPT ![p] =
       [kind |-> "ok", team_id |-> loc[p].team_id, smape |-> loc[p].score,
        is_best |-> loc[p].is_best,
        submissions_remaining |-> Remaining(loc[p].new_count)]]
  /\ pc' = [pc EXCEPT ![p] = "done"]
  /\ loc' = [loc EXCEPT ![p] = NoLocals]
  /\ UNCHANGED <<aux, clock, auth_tokens, submission_history, uploads, rpc, rdel, rresp>>

\* The same on a connection with autocommit: the write of w stays.
RolledBack_Autocommit(table, w) == ApplyWrite(table, w)

\* A table after a transaction that wrote w to it ended without COMMIT.
RolledBack(table, w) == table

\* upload, lines 131-172 and 176-177: a statement of the second connection
\* fails; the exception becomes an error response and the connection is
\* dropped without a commit, which rolls the transaction back.
UploadStorageFailure(p) ==
  /\ pc[p] \in {"select", "write", "count", "commit"}
  /\ submissions' = RolledBack(submissions, loc[p].lb_write)
  /\ resp' = [resp EXCEPT ![p] = Error("storage")]
  /\ pc' = [pc EXCEPT ![p] = "done"]
  /\ loc' = [loc EXCEPT ![p] = NoLocals]
  /\ UNCHANGED <<aux, clock, auth_tokens, team_submissions, submission_history,
                 uploads, rpc, rdel, rresp>>

\* The response of upload has been sent; the handler is free again.
UploadReturn(p) ==
  /\ pc[p] = "done"
  /\ pc' = [pc EXCEPT ![p] = "idle"]
  /\ resp' = [resp EXCEPT ![p] = NoResp]
  /\ UNCHANGED <<aux, clock, auth_tokens, db, loc, uploads, rpc, rdel, rresp>>

\* reset, lines 252-271: the admin check, then DELETE FROM submissions, which
\* waits for the row locks of uncommitted UPDATEs.
ResetBegin(auth_token) ==
  /\ rpc = "idle"
  /\ LET auth == {a \in auth_tokens : a.token = auth_token} IN
     IF auth_token = NoToken THEN
       /\ rresp' = Error("Not authenticated")
       /\ rpc' = "done"
       /\ UNCHANGED rdel
     ELSE IF auth = {} \/ (CHOOSE a \in auth : TRUE).team_id # ADMIN_TEAM_ID THEN
       /\ rresp' = Error("Admin access required")
       /\ rpc' = "done"
       /\ UNCHANGED rdel
     ELSE
       /\ \A p \in Procs : loc[p].lb_write.op = "update" =>
            loc[p].lb_write.id \notin {r.id : r \in submissions}
       /\ rdel' = [rdel EXCEPT !.lb = {r.id : r \in submissions}]
       /\ rpc' = "delete_team_submissions"
       /\ UNCHANGED rresp
  /\ UNCHANGED <<aux, clock, auth_tokens, db, pc, loc, resp, uploads>>

\* reset without line 273.
ResetDeleteRest_KeepHistory ==
  /\ rpc = "delete_team_submissions"
  /\ rdel' = [rdel EXCEPT !.att = team_submissions]
  /\ rpc' = "commit"
  /\ UNCHANGED <<aux, clock, auth_tokens, db, pc, loc, resp, uploads, rresp>>

\* reset, lines 272-273: DELETE FROM team_submissions and DELETE FROM
\* submission_history.  No transaction writes both tables, so a commit that
\* falls between the two statements has the effect of one before or after.
ResetDeleteRest ==
  /\ rpc = "delete_team_submissions"
  /\ rdel' = [rdel EXCEPT !.att = team_submissions, !.hist = submission_history]
  /\ rpc' = "commit"
  /\ UNCHANGED <<aux, clock, auth_tokens, db, pc, loc, resp, uploads, rresp>>

\* reset, lines 274-277: COMMIT.
ResetCommit ==
  /\ rpc = "commit"
  /\ submissions' = {r \in submissions : r.id \notin rdel.lb}
  /\ team_submissions' = team_submissions (-) rdel.att
  /\ submission_history' = submission_history \ rdel.hist
  /\ rdel' = NoDeletes
  /\ rpc' = "done"
  /\ rresp' = [kind |-> "ok"]
  /\ UNCHANGED <<aux, clock, auth_tokens, pc, loc, resp, uploads>>

\* The response of reset has been sent.
ResetReturn ==
  /\ rpc = "done"
  /\ rpc' = "idle"
  /\ rresp' = NoResp
  /\ UNCHANGED <<aux, clock, auth_tokens, db, pc, loc, resp, uploads, rdel>>

\* Nobody but handler p is inside a request.
Alone(p) == rpc = "idle" /\ \A q \in Procs \ {p} : pc[q] = "idle"
NoUploads == \A q \in Procs : pc[q] = "idle"

UploadStep(p) ==
  \/ \E auth_token \in UploadCookies : UploadBegin(p, auth_token)
  \/ \E file \in Files : UploadEvaluate(p, file)
  \/ UploadSelectExisting(p)
  \/ UploadWrite(p)
  \/ UploadCount(p)
  \/ UploadCommit(p)
  \/ UploadStorageFailure(p)
  \/ UploadReturn(p)

ResetStep ==
  \/ \E auth_token \in Cookies : ResetBegin(auth_token)
  \/ ResetDeleteRest
  \/ ResetCommit
  \/ ResetReturn

\* The lowest free handler takes the next upload.
Dispatch(p) == pc[p] = "idle" => \A q \in Procs : q < p => pc[q] # "idle"

\* A handler takes a new upload while fewer than max have been let through.
Admit(p, max) == pc[p] = "idle" => uploads < max

\* Uploads are handled concurrently by several workers; a reset runs while
\* no upload is being handled.
Next ==
  \/ Tick
  \/ \E p \in Procs :
       rpc = "idle" /\ Dispatch(p) /\ Admit(p, MaxRaces) /\ UploadStep(p)
  \/ NoUploads /\ ResetStep

Spec == Init /\ [][Next]_vars

\* Requests are handled one at a time.
NextSeq ==
  \/ Tick
  \/ Alone(1) /\ Admit(1, MaxUploads) /\ UploadStep(1)
  \/ NoUploads /\ ResetStep

SpecSeq == Init /\ [][NextSeq]_vars

\* One upload at a time and a reset that runs while the upload is in
\* flight: reset is a def handler run on a thread of the pool, upload runs on
\* the event loop, and each statement of either sees what is committed when
\* it runs.
NextOverlap ==
  \/ Tick
  \/ Admit(1, MaxRaces) /\ UploadStep(1)
  \/ ResetStep

SpecOverlap == Init /\ [][NextOverlap]_vars

(***************************************************************************)
(* calculate_smape on the values of the two final_service_units columns.   *)
(* Cells are whole numbers, those of actual.csv at least 1.  The score is  *)
(* computed in thousandths, rounded down at each division, and rounded to  *)
(* hundredths at the end; the 1e-8 of line 53 is below that resolution.    *)
(***************************************************************************)
MaxLen == 2          \* rows of a csv file
MaxVal == 2          \* the largest cell
MaxScale == 2        \* the largest factor both columns are scaled by

\* The columns of 1..MaxLen rows with cells in lo..hi.
Columns(lo, hi) == UNION {[1..n -> lo..hi] : n \in 1..MaxLen}

\* The length of x - y for numpy arrays of n and m elements: the arrays are
\* broadcast when their lengths are equal or one of them is 1; 0 stands for
\* the ValueError raised otherwise.
BroadcastLen(n, m) ==
  IF n = m THEN n ELSE IF n = 1 THEN m ELSE IF m = 1 THEN n ELSE 0

\* Element i of a broadcast array.
At(v, i) == IF Len(v) = 1 THEN v[1] ELSE v[i]

Abs(x) == IF x < 0 THEN -x ELSE x

RECURSIVE SumTo(_, _)
\* f[1] + ... + f[n]
SumTo(f, n) == IF n = 0 THEN 0 ELSE f[n] + SumTo(f, n - 1)

RECURSIVE SqrtBetween(_, _, _)
\* The largest r in lo..hi-1 with r * r <= x.
SqrtBetween(x, lo, hi) ==
  IF hi - lo <= 1 THEN lo
  ELSE LET mid == (lo + hi) \div 2 IN
       IF mid * mid <= x THEN SqrtBetween(x, mid, hi)
       ELSE SqrtBetween(x, lo, mid)

\* np.sqrt, rounded down.
Sqrt(x) == SqrtBetween(x, 0, 20000)

\* x * y / 12500 rounded down, without a product above 2^31.
TimesOver12500(x, y) ==
  (x \div 12500) * y + ((x % 12500) * y) \div 12500

\* calculate_smape, lines 49-74, on columns of whole numbers: it raises or
\* returns the score in hundredths.
final_score(df_actual, df_predicted) ==
  LET n == BroadcastLen(Len(df_actual), Len(df_predicted))
      errors == [i \in 1..n |-> At(df_actual, i) - At(df_predicted, i)]
      \* line 50, in thousandths
      rmse == Sqrt((SumTo([i \in 1..n |-> errors[i] * errors[i]], n) * 1000000) \div n)
      \* line 53, in thousandths of a percent
      smape_val ==
        SumTo([i \in 1..n |-> (Abs(errors[i]) * 100000) \div At(df_actual, i)], n) \div n
      \* lines 56-62 with delta = 1.0, in thousandths
      huber_loss ==
        SumTo([i \in 1..n |-> IF Abs(errors[i]) <= 1
                                THEN 500 * errors[i] * errors[i]
                                ELSE 1000 * Abs(errors[i]) - 500], n) \div n
      \* line 65
      smape == smape_val + TimesOver12500(smape_val, rmse) + huber_loss
  IN IF n = 0 THEN [raised |-> TRUE, score |-> NaN]
     ELSE [raised |-> FALSE, score |-> (smape + 5) \div 10]

\* Column v with every cell multiplied by c.
Scaled(v, c) == [i \in 1..Len(v) |-> c * v[i]]

\* calculate_smape is about to be called on two columns.
InitMetric ==
  /\ InitService
  /\ \E a \in Columns(1, MaxVal) : \E q \in Columns(0, MaxVal) :
       metric = [called |-> FALSE, actual |-> a, predicted |-> q]

\* calculate_smape(actual, predicted).
MetricCall ==
  /\ ~ metric.called
  /\ metric' = [called |-> TRUE, actual |-> metric.actual,
                predicted |-> metric.predicted,
                out |-> final_score(metric.actual, metric.predicted),
                factor |-> 0, out_scaled |-> [raised |-> TRUE, score |-> NaN]]
  /\ UNCHANGED <<clock, auth_tokens, db, pc, loc, resp, uploads, rpc, rdel,
                 rresp, view, issued>>

\* calculate_smape(c * actual, c * predicted), to compare with the first call.
MetricCallScaled(c) ==
  /\ metric.called /\ metric.factor = 0
  /\ metric' = [metric EXCEPT
       !.factor = c,
       !.out_scaled = final_score(Scaled(metric.actual, c), Scaled(metric.predicted, c))]
  /\ UNCHANGED <<clock, auth_tokens, db, pc, loc, resp, uploads, rpc, rdel,
                 rresp, view, issued>>

NextMetric ==
  \/ MetricCall
  \/ \E c \in 1..MaxScale : MetricCallScaled(c)

SpecMetric == InitMetric /\ [][NextMetric]_vars

(***************************************************************************)
(* The requests that only read: leaderboard and user_history.              *)
(***************************************************************************)
\* teams.team_name, as setup_postgres.py seeds it.
team_name(t) ==
  CASE t = "1234" -> "Team Alpha"
    [] t = "4321" -> "Team Beta"
    [] OTHER -> "Administrator"

\* The names /user/{name} is asked for: the team ids, two other spellings of
\* admin2025 and a name no team has.
Names == Teams \cup {"ADMIN2025", "Admin2025", "nobody"}

\* SQL LOWER on these names.
LOWER(name) == IF name \in {"ADMIN2025", "Admin2025"} THEN "admin2025" ELSE name

\* ORDER BY: the sequences that hold every row of the set once, no row
\* before one that sorts strictly lower; le holds the pairs <<x, y>> of rows
\* of which x sorts no higher than y.  Rows that compare equal come in any
\* order.
OrderBy(rows, le) ==
  {f \in [1..Cardinality(rows) -> rows] :
     /\ \A r \in rows : \E i \in DOMAIN f : f[i] = r
     /\ \A i, j \in DOMAIN f : i < j => <<f[i], f[j]>> \in le}

\* enumerate(rows) without the start value 1.
rank_FromZero(i) == i - 1

\* Line 197: enumerate(rows, 1) numbers the i-th row i.
rank(i) == i

\* leaderboard, lines 187-206: the responses it can give.
leaderboard ==
  {[i \in DOMAIN rows |->
      [rank |-> rank(i), id |-> rows[i].id, team_id |-> rows[i].user,
       user |-> team_name(rows[i].user), smape |-> rows[i].smape,
       timestamp |-> rows[i].timestamp]] :
   rows \in OrderBy(submissions,
                    {xy \in submissions \X submissions :
                       PgLe(xy[1].smape, xy[2].smape)})}

\* Line 243 comparing "user" with the name as it was sent.
user_history_ExactName(name) ==
  OrderBy({r \in submissions : r.user = name},
          {xy \in submissions \X submissions : xy[1].timestamp >= xy[2].timestamp})

\* user_history, lines 242-249: the responses it can give.
user_history(name) ==
  OrderBy({r \in submissions : LOWER(r.user) = LOWER(name)},
          {xy \in submissions \X submissions : xy[1].timestamp >= xy[2].timestamp})

\* GET /leaderboard
GetLeaderboard ==
  /\ view = NoView
  /\ \E result \in leaderboard :
       view' = [kind |-> "leaderboard", name |-> "", result |-> result]
  /\ UNCHANGED <<clock, auth_tokens, db, pc, loc, resp, uploads, rpc, rdel,
                 rresp, issued, metric>>

\* GET /user/{name}
GetUserHistory(name) ==
  /\ view = NoView
  /\ \E result \in user_history(name) :
       view' = [kind |-> "user_history", name |-> name, result |-> result]
  /\ UNCHANGED <<clock, auth_tokens, db, pc, loc, resp, uploads, rpc, rdel,
                 rresp, issued, metric>>

\* The response of a request that only reads or logs has been sent.
ViewReturn ==
  /\ view # NoView
  /\ view' = NoView
  /\ UNCHANGED <<clock, auth_tokens, db, pc, loc, resp, uploads, rpc, rdel,
                 rresp, issued, metric>>

\* Uploads of the three teams, one at a time, and the two reading requests
\* between them.
NextView ==
  \/ view = NoView /\ Tick
  \/ view = NoView /\ Alone(1) /\ Admit(1, MaxUploads) /\ UploadStep(1)
  \/ view = NoView /\ Alone(1) /\ Admit(1, MaxUploads) /\ UploadBegin(1, "tokAdmin")
  \/ NoUploads /\ GetLeaderboard
  \/ NoUploads /\ \E name \in Names : GetUserHistory(name)
  \/ ViewReturn

SpecView == Init /\ [][NextView]_vars

(***************************************************************************)
(* The session history: get_history, add_history and clear_history.        *)
(***************************************************************************)
MaxHistory == 3      \* the highest id of a row of submission_history

Sessions == {"s1", "s2"}

\* The scores add_history is sent: 8.00 and 1234567.89.
HistoryScores == {800, BigScore}

\* nextval of submission_history.id: above the id of every row of the table.
NextHistoryId ==
  IF submission_history = {} THEN 1
  ELSE 1 + (CHOOSE m \in {r.id : r \in submission_history} :
              \A r \in submission_history : r.id <= m)

\* get_history, lines 283-290: the rows of the session by ascending id,
\* without their session_id.
get_history(session_id) ==
  LET rows == CHOOSE f \in
        OrderBy({r \in submission_history : r.session_id = session_id},
                {xy \in submission_history \X submission_history :
                   xy[1].id <= xy[2].id}) : TRUE
  IN [i \in DOMAIN rows |->
        [id |-> rows[i].id, team |-> rows[i].team, smape |-> rows[i].smape,
         timestamp |-> rows[i].timestamp]]

\* GET /history/{session_id}
GetHistory(session_id) ==
  /\ view = NoView
  /\ view' = [kind |-> "history", name |-> session_id,
              result |-> get_history(session_id)]
  /\ UNCHANGED <<clock, auth_tokens, db, pc, loc, resp, uploads, rpc, rdel,
                 rresp, issued, metric>>

\* The row line 297 inserts; smape is a REAL column.
HistoryRow(id, session_id, team, smape, timestamp) ==
  [id |-> id, session_id |-> session_id, team |-> team,
   smape |-> ToReal(smape), timestamp |-> timestamp]

\* DELETE FROM submission_history without the WHERE of line 309.
clear_history_EverySession(table, session_id) == {}

\* Line 309: DELETE FROM submission_history WHERE session_id = %s.
clear_history(table, session_id) == {r \in table : r.session_id # session_id}

\* add_history, lines 293-303.
AddHistory(session_id, team, smape, timestamp) ==
  /\ view = NoView
  /\ NextHistoryId <= MaxHistory
  /\ submission_history' = submission_history \cup
       {HistoryRow(NextHistoryId, session_id, team, smape, timestamp)}
  /\ UNCHANGED <<aux, clock, auth_tokens, submissions, team_submissions, pc,
                 loc, resp, uploads, rpc, rdel, rresp>>

\* clear_history, lines 306-313.
ClearHistory(session_id) ==
  /\ view = NoView
  /\ submission_history' = clear_history(submission_history, session_id)
  /\ UNCHANGED <<aux, clock, auth_tokens, submissions, team_submissions, pc,
                 loc, resp, uploads, rpc, rdel, rresp>>

\* Uploads, resets and the session history requests, one request at a time.
NextHist ==
  \/ view = NoView /\ Alone(1) /\ Admit(1, MaxRaces) /\
       \E auth_token \in {"tokA", "tokB"} : UploadBegin(1, auth_token)
  \/ view = NoView /\ Alone(1) /\ UploadEvaluate(1, [kind |-> "ok", score |-> 800])
  \/ view = NoView /\ Alone(1) /\ UploadSelectExisting(1)
  \/ view = NoView /\ Alone(1) /\ UploadWrite(1)
  \/ view = NoView /\ Alone(1) /\ UploadCount(1)
  \/ view = NoView /\ Alone(1) /\ UploadCommit(1)
  \/ view = NoView /\ Alone(1) /\ UploadReturn(1)
  \/ view = NoView /\ NoUploads /\ ResetStep
  \/ NoUploads /\ rpc = "idle" /\
       \E session_id \in Sessions : \E smape \in HistoryScores :
         AddHistory(session_id, "Team Alpha", smape, clock)
  \/ NoUploads /\ rpc = "idle" /\ \E session_id \in Sessions : ClearHistory(session_id)
  \/ NoUploads /\ rpc = "idle" /\ \E session_id \in Sessions : GetHistory(session_id)
  \/ ViewReturn

SpecHist == Init /\ [][NextHist]_vars

(***************************************************************************)
(* Sessions: login and logout.                                             *)
(***************************************************************************)
MaxLogins == 1       \* tokens that login hands out

\* Values of secrets.token_hex(32), in the order they are drawn.
TokenHex == <<"hex1", "hex2", "hex3">>
FreshTokens == {TokenHex[i] : i \in 1..MaxLogins}

\* The cookies requests are sent with once teams log in and out.
AuthCookies == Cookies \cup FreshTokens

\* The team ids login is called with: the three teams and one that is none.
LoginIds == Teams \cup {"nobody"}

\* The passwords setup_postgres.py seeds, and one that is nobody's.
Passwords == {"password123", "password456", "TechnoForge@Admin#2025", "guess"}

\* hash_password, lines 39-40: SHA-256 maps different passwords to different
\* digests.
hash_password(password) == <<"sha256", password>>

\* teams.password_hash
password_hash(team_id) ==
  CASE team_id = "1234" -> hash_password("password123")
    [] team_id = "4321" -> hash_password("password456")
    [] OTHER -> hash_password("TechnoForge@Admin#2025")

\* login, lines 317-359.
Login(team_id, password) ==
  /\ view = NoView
  /\ IF team_id \notin Teams THEN
       /\ view' = [kind |-> "login", success |-> FALSE, token |-> NoToken]
       /\ UNCHANGED <<auth_tokens, issued>>
     ELSE IF password_hash(team_id) # hash_password(password) THEN
       /\ view' = [kind |-> "login", success |-> FALSE, token |-> NoToken]
       /\ UNCHANGED <<auth_tokens, issued>>
     ELSE
       \E token \in FreshTokens \ issued :
         /\ issued' = issued \cup {token}
         /\ auth_tokens' = auth_tokens \cup {[token |-> token, team_id |-> team_id]}
         /\ view' = [kind |-> "login", success |-> TRUE, token |-> token]
  /\ UNCHANGED <<clock, db, pc, loc, resp, uploads, rpc, rdel, rresp, metric>>

\* logout without line 366: only the cookie is deleted.
logout_rows_CookieOnly(table, auth_token) == {}

\* The rows line 366 deletes: DELETE FROM auth_tokens WHERE token = %s.
logout_rows(table, auth_token) == {a \in table : a.token = auth_token}

\* logout, lines 362-372.
Logout(auth_token) ==
  /\ view = NoView
  /\ auth_tokens' = IF auth_token = NoToken THEN auth_tokens
                    ELSE auth_tokens \ logout_rows(auth_tokens, auth_token)
  /\ view' = [kind |-> "logout", success |-> TRUE, token |-> auth_token]
  /\ UNCHANGED <<clock, db, pc, loc, resp, uploads, rpc, rdel, rresp, issued,
                 metric>>

\* Uploads and resets, one request at a time, by teams that log in and out.
NextAuth ==
  \/ view = NoView /\ Alone(1) /\ Admit(1, MaxRaces) /\
       \E auth_token \in AuthCookies : UploadBegin(1, auth_token)
  \/ view = NoView /\ Alone(1) /\ UploadEvaluate(1, [kind |-> "ok", score |-> 800])
  \/ view = NoView /\ Alone(1) /\ UploadSelectExisting(1)
  \/ view = NoView /\ Alone(1) /\ UploadWrite(1)
  \/ view = NoView /\ Alone(1) /\ UploadCount(1)
  \/ view = NoView /\ Alone(1) /\ UploadCommit(1)
  \/ view = NoView /\ Alone(1) /\ UploadReturn(1)
  \/ view = NoView /\ NoUploads /\ \E auth_token \in AuthCookies : ResetBegin(auth_token)
  \/ view = NoView /\ NoUploads /\ ResetDeleteRest
  \/ view = NoView /\ NoUploads /\ ResetCommit
  \/ view = NoView /\ NoUploads /\ ResetReturn
  \/ NoUploads /\ rpc = "idle" /\
       \E team_id \in LoginIds : \E password \in Passwords : Login(team_id, password)
  \/ NoUploads /\ rpc = "idle" /\ \E auth_token \in AuthCookies : Logout(auth_token)
  \/ ViewReturn

SpecAuth == Init /\ [][NextAuth]_vars

(***************************************************************************)
(* Properties                                                              *)
(***************************************************************************)

\* The team a cookie authenticates, "" when it authenticates none.
TeamOfCookie(auth_token) ==
  LET auth == {a \in auth_tokens : a.token = auth_token} IN
  IF auth = {} THEN "" ELSE (CHOOSE a \in auth : TRUE).team_id

\* The scores of the recorded attempts of team t.
AttemptScores(t) == {r.smape : r \in {x \in BagToSet(team_submissions) : x.team_id = t}}

\* The lowest score among the recorded attempts of team t.
MinAttempt(t) == CHOOSE m \in AttemptScores(t) : \A x \in AttemptScores(t) : PgLe(m, x)

\* Handler p has just answered an accepted upload.
Accepted(p) == pc[p] = "done" /\ resp[p].kind = "ok"

\* C1: with uploads run one at a time, an authenticated upload made while
\* the team already has MAX_SUBMISSIONS_PER_TEAM attempts is answered with an
\* error at once, without the evaluation step, and changes no table.
C1_QuotaRejectsBeforeEvaluation ==
  [][\A p \in Procs : \A auth_token \in UploadCookies :
       (/\ UploadBegin(p, auth_token)
        /\ TeamOfCookie(auth_token) # ""
        /\ CountAttempts(TeamOfCookie(auth_token)) >= MAX_SUBMISSIONS_PER_TEAM)
       => /\ pc'[p] = "done"
          /\ resp'[p].kind = "error"
          /\ db' = db]_vars

\* C1 witness: team 1234 holds 10 attempts and its upload has been rejected.
C1_Witness ==
  /\ CountAttempts("1234") = MAX_SUBMISSIONS_PER_TEAM
  /\ pc[1] = "done"
  /\ resp[1] = Error("Submission limit reached")

\* C2: no team ever has more than MAX_SUBMISSIONS_PER_TEAM recorded attempts,
\* whatever the interleaving of its uploads.
C2_QuotaNeverExceeded ==
  \A t \in Teams : CountAttempts(t) <= MAX_SUBMISSIONS_PER_TEAM

\* C3: with uploads run one at a time, a team that has recorded attempts has
\* a leaderboard entry whose score is the minimum of its attempts' scores.
C3_BestIsMinimum ==
  \A t \in Teams :
    (NoUploads /\ rpc = "idle" /\ CountAttempts(t) > 0)
      => /\ EntriesOf(t) # {}
         /\ \A e \in EntriesOf(t) : e.smape = MinAttempt(t)

\* C4: the leaderboard never holds two rows of one team.
C4_OneEntryPerTeam ==
  \A t \in Teams : Cardinality(EntriesOf(t)) <= 1

\* C5: concurrent uploads of one team behave as if run in some order; in
\* particular no step replaces the score of a leaderboard row by a worse one.
C5_NeverOverwrittenByWorse ==
  [][\A r \in submissions : \A n \in submissions' :
       r.id = n.id => ~ Lt(r.smape, n.smape)]_vars

\* C6: with uploads run one at a time, an accepted upload of a team whose
\* entry holds a score that the new score does not beat (new >= stored)
\* leaves table submissions as it was: same score, same timestamp, no new row.
C6_NoUpdateUnlessBetter ==
  [][\A p \in Procs :
       (/\ pc[p] = "commit" /\ Accepted(p)'
        /\ \E e \in EntriesOf(loc[p].team_id) :
             loc[p].score # NaN /\ e.smape # NaN /\ loc[p].score >= e.smape)
       => submissions' = submissions]_vars

\* C6 witness: an accepted upload that was not the best, answered after the
\* entry's second, with a score at or above that of the entry.
C6_Witness ==
  /\ Accepted(1) /\ ~ resp[1].is_best
  /\ \E e \in EntriesOf(resp[1].team_id) :
       /\ resp[1].smape # NaN /\ e.smape # NaN /\ resp[1].smape >= e.smape
       /\ e.timestamp < clock

\* The ids of the rows in which two states of table submissions differ.
ChangedIds(old, new) == {r.id : r \in (old \ new) \cup (new \ old)}

\* C7: the commit of an accepted upload adds exactly one attempt of the team,
\* best or not, and changes at most one row of the leaderboard.
C7_OneAttemptPerUpload ==
  [][\A p \in Procs :
       (pc[p] = "commit" /\ Accepted(p)')
       => /\ CountAttempts(resp[p].team_id)' = CountAttempts(loc[p].team_id) + 1
          /\ BagCardinality(team_submissions') = BagCardinality(team_submissions) + 1
          /\ Cardinality(ChangedIds(submissions, submissions')) <= 1]_vars

\* C7 witness: an upload with a score that was not the best has been
\* recorded as the team's second attempt.
C7_Witness ==
  /\ Accepted(1) /\ ~ resp[1].is_best /\ resp[1].smape # NaN
  /\ CountAttempts(resp[1].team_id) = 2
  /\ resp[1].submissions_remaining = MAX_SUBMISSIONS_PER_TEAM - 2

\* C8: with uploads run one at a time, is_best is true exactly when the team
\* had no entry or the score is strictly below the stored one.
C8_IsBestIffStrictlyBetter ==
  [][\A p \in Procs :
       (pc[p] = "commit" /\ Accepted(p)')
       => (resp'[p].is_best <=>
             \/ EntriesOf(loc[p].team_id) = {}
             \/ \E e \in EntriesOf(loc[p].team_id) : Lt(loc[p].score, e.smape))]_vars

\* C8 witness: an upload whose score equals the stored one was answered with
\* is_best false.
C8_Witness ==
  /\ Accepted(1) /\ ~ resp[1].is_best
  /\ \E e \in EntriesOf(resp[1].team_id) : e.smape = resp[1].smape

\* C9: with uploads run one at a time, an accepted upload reports
\* MAX_SUBMISSIONS_PER_TEAM minus the team's attempts, its own included, and
\* the report lies in 0..MAX-1.
C9_RemainingAfterRecording ==
  \A p \in Procs :
    Accepted(p) =>
      /\ resp[p].submissions_remaining =
           MAX_SUBMISSIONS_PER_TEAM - CountAttempts(resp[p].team_id)
      /\ resp[p].submissions_remaining \in 0..(MAX_SUBMISSIONS_PER_TEAM - 1)

\* C9 witness: the tenth upload of a team reports 0.
C9_Witness ==
  /\ Accepted(1) /\ resp[1].submissions_remaining = 0
  /\ CountAttempts(resp[1].team_id) = MAX_SUBMISSIONS_PER_TEAM

\* C10: an upload that ends in an error leaves every table as it was.
C10_FailedUploadLeavesNoTrace ==
  [][\A p \in Procs :
       (pc[p] # "done" /\ pc'[p] = "done" /\ resp'[p].kind = "error")
       => db' = db]_vars

\* C10 witness: the only upload so far ended in a storage error and both
\* tables are empty.
C10_Witness ==
  /\ pc[1] = "done" /\ resp[1] = Error("storage")
  /\ uploads = 1
  /\ submissions = {} /\ team_submissions = EmptyBag

\* C11: calculate_smape raises whenever the two columns differ in length,
\* a column of one row included.
C11_ShapeMismatchRejected ==
  (metric.called /\ Len(metric.actual) # Len(metric.predicted))
    => metric.out.raised

\* C19: the score is the same when both columns are multiplied by a positive
\* factor, and it is 0 when the two columns are equal.
C19_ScaleInvariant ==
  /\ (metric.called /\ metric.factor > 0
       /\ Len(metric.actual) = Len(metric.predicted))
      => metric.out_scaled = metric.out
  /\ (metric.called /\ metric.actual = metric.predicted)
      => (~ metric.out.raised /\ metric.out.score = 0)

\* C12: the response of leaderboard lists every row of submissions exactly
\* once, no row before one with a lower score, ranked 1, 2, ..., n by
\* position; with no rows it is the empty list.
C12_LeaderboardSortedAndRanked ==
  view.kind = "leaderboard" =>
    LET result == view.result IN
    /\ Len(result) = Cardinality(submissions)
    /\ \A r \in submissions :
         Cardinality({i \in DOMAIN result :
                        /\ result[i].id = r.id /\ result[i].team_id = r.user
                        /\ result[i].smape = r.smape
                        /\ result[i].timestamp = r.timestamp}) = 1
    /\ \A i, j \in DOMAIN result : i < j => PgLe(result[i].smape, result[j].smape)
    /\ \A i \in DOMAIN result : result[i].rank = i
    /\ submissions = {} => result = <<>>

\* C12 witness: a leaderboard of three teams has been returned, two of them
\* with different scores.
C12_Witness ==
  /\ view.kind = "leaderboard"
  /\ Len(view.result) = 3
  /\ view.result[1].smape # view.result[3].smape

\* C12 witness: the leaderboard has been asked for while it was empty.
C12_WitnessEmpty == view.kind = "leaderboard" /\ submissions = {}

\* C13: of two rows with equal scores, leaderboard lists the one with the
\* earlier timestamp first.
C13_TiesByTimestamp ==
  view.kind = "leaderboard" =>
    \A i, j \in DOMAIN view.result :
      (i < j /\ view.result[i].smape = view.result[j].smape)
        => view.result[i].timestamp <= view.result[j].timestamp

\* C15: user_history of a team returns one item for each of its recorded
\* attempts, the latest first.
C15_HistoryHoldsEveryAttempt ==
  (view.kind = "user_history" /\ view.name \in Teams) =>
    /\ Len(view.result) = CountAttempts(view.name)
    /\ \A i, j \in DOMAIN view.result :
         i < j => view.result[i].timestamp >= view.result[j].timestamp

\* C16: the response user_history has just given for a name is the response
\* it gives, in the same state, for every name that differs from it only in
\* the case of its letters.
C16_HistoryIgnoresCase ==
  view.kind = "user_history" =>
    \A name \in Names :
      LOWER(name) = LOWER(view.name) =>
        /\ view.result \in user_history(name)
        /\ user_history(name) = user_history(view.name)

\* C16 witness: the history of ADMIN2025 has been returned with the row the
\* upload of admin2025 left.
C16_Witness ==
  /\ view.kind = "user_history"
  /\ view.name = "ADMIN2025"
  /\ Len(view.result) = 1
  /\ view.result[1].user = "admin2025"

\* C14: once reset has answered an administrator, the leaderboard is the
\* empty list, no team has a recorded attempt and the history of every
\* session is empty.
C14_ResetClearsEverything ==
  (rpc = "done" /\ rresp.kind = "ok") =>
    /\ leaderboard = {<<>>}
    /\ \A t \in Teams : CountAttempts(t) = 0
    /\ \A session_id \in Sessions : get_history(session_id) = <<>>

\* C14 witness: reset has answered an administrator after uploads went
\* through.
C14_Witness ==
  /\ rpc = "done" /\ rresp.kind = "ok"
  /\ uploads > 0
  /\ submissions = {} /\ team_submissions = EmptyBag /\ submission_history = {}

\* C14 witness: what the three tables hold when a reset is about to commit.
C14_WitnessBefore ==
  /\ rpc = "commit"
  /\ submissions # {} /\ CountAttempts("1234") > 0 /\ CountAttempts("4321") > 0
  /\ get_history("s1") # <<>> /\ get_history("s2") # <<>>

\* C18: add_history appends its entry to the list of its session and
\* clear_history empties the list of its session; both leave the lists of
\* the other sessions, the leaderboard and the attempts as they are; no step
\* of an upload changes the table of the session history.
C18_HistoryPerSession ==
  [][/\ \A session_id \in Sessions : \A smape \in HistoryScores :
          AddHistory(session_id, "Team Alpha", smape, clock) =>
            /\ get_history(session_id)' =
                 Append(get_history(session_id),
                        [id |-> NextHistoryId, team |-> "Team Alpha",
                         smape |-> ToReal(smape), timestamp |-> clock])
            /\ \A other \in Sessions \ {session_id} :
                 get_history(other)' = get_history(other)
            /\ submissions' = submissions
            /\ team_submissions' = team_submissions
     /\ \A session_id \in Sessions :
          ClearHistory(session_id) =>
            /\ get_history(session_id)' = <<>>
            /\ \A other \in Sessions \ {session_id} :
                 get_history(other)' = get_history(other)
            /\ submissions' = submissions
            /\ team_submissions' = team_submissions
     /\ (\E p \in Procs : pc'[p] # pc[p]) =>
          submission_history' = submission_history
     /\ view'.kind = "history" =>
          view'.result = get_history(view'.name)]_vars

\* C18 witness: the list of s1 has been returned with two entries, after an
\* upload was recorded.
C18_Witness ==
  /\ view.kind = "history" /\ view.name = "s1"
  /\ Len(view.result) = 2
  /\ submissions # {}

\* C18 witness: s1 has been cleared while s2 holds an entry.
C18_WitnessCleared ==
  /\ get_history("s1") = <<>> /\ get_history("s2") # <<>>
  /\ get_history("s2")[1].id > 1

\* C17: no step of an upload changes the attempts or the leaderboard rows of
\* a team other than the one that uploads, whatever other uploads are in
\* flight; the upload is turned away for the quota exactly when its own team
\* has MAX_SUBMISSIONS_PER_TEAM attempts, the row it compares its score with
\* is a row of its own team, and the count it reports is the count of its
\* own team's attempts.
C17_CrossTeamNonInterference ==
  [][\A p \in Procs :
       pc'[p] # pc[p] =>
         LET team_id == loc[p].team_id IN
         /\ \A t \in Teams \ {team_id} :
              /\ CountAttempts(t)' = CountAttempts(t)
              /\ EntriesOf(t)' = EntriesOf(t)
         /\ \A auth_token \in UploadCookies :
              (UploadBegin(p, auth_token) /\ TeamOfCookie(auth_token) # "")
                => (pc'[p] = "done"
                      <=> CountAttempts(TeamOfCookie(auth_token)) >= MAX_SUBMISSIONS_PER_TEAM)
         /\ (pc[p] = "select" /\ pc'[p] = "write" /\ loc'[p].existing # None)
              => \E r \in EntriesOf(team_id) :
                   r.id = loc'[p].existing.id /\ r.smape = loc'[p].existing.smape
         /\ (pc[p] = "count" /\ pc'[p] = "commit")
              => loc'[p].new_count = CountAttempts(team_id) + 1]_vars

\* C17 witness: the upload of team 4321 has been accepted as its best while
\* an upload of team 1234, which has a leaderboard row, waits to commit.
C17_Witness ==
  /\ Accepted(1) /\ resp[1].team_id = "4321" /\ resp[1].is_best
  /\ pc[2] = "commit" /\ loc[2].team_id = "1234"
  /\ EntriesOf("1234") # {} /\ CountAttempts("1234") > 0

\* The tokens auth_tokens holds.
KnownTokens == {a.token : a \in auth_tokens}

\* C20: an upload sent without a token or with a token auth_tokens does not
\* hold, and a reset sent without a token, with such a token or with the
\* token of a team that is not the administrator, are answered with an error
\* and change no table; logout removes the token from auth_tokens, and a
\* token that has left auth_tokens never returns to it.
C20_UnauthorizedChangesNothing ==
  [][/\ \A auth_token \in AuthCookies :
          /\ (UploadBegin(1, auth_token) /\ auth_token \notin KnownTokens)
               => /\ pc'[1] = "done" /\ resp'[1].kind = "error"
                  /\ db' = db /\ loc' = loc
          /\ (/\ ResetBegin(auth_token)
              /\ \/ auth_token \notin KnownTokens
                 \/ TeamOfCookie(auth_token) # ADMIN_TEAM_ID)
               => /\ rpc' = "done" /\ rresp'.kind = "error"
                  /\ db' = db /\ rdel' = rdel
          /\ Logout(auth_token) => auth_token \notin KnownTokens'
          /\ (auth_token \in issued /\ auth_token \notin KnownTokens)
               => auth_token \notin KnownTokens'
     /\ (rpc = "done" /\ rresp.kind = "error") => (db' = db /\ rpc' = "idle")
     /\ (pc[1] = "done" /\ resp[1].kind = "error") => (db' = db /\ pc'[1] = "idle")
    ]_vars

\* C20 witness: an upload sent with the token a team logged in with and
\* logged out of has been refused, with attempts and a leaderboard on record.
C20_Witness ==
  /\ pc[1] = "done" /\ resp[1] = Error("Invalid authentication")
  /\ "hex1" \in issued /\ "hex1" \notin KnownTokens
  /\ "tokA" \notin KnownTokens
  /\ submissions # {} /\ CountAttempts("4321") > 0

\* C20 witness: a reset sent with the token of team 1234 has been refused and
\* the tables are not empty.
C20_WitnessReset ==
  /\ rpc = "done" /\ rresp = Error("Admin access required")
  /\ "tokA" \in KnownTokens
  /\ submissions # {} /\ team_submissions # EmptyBag

\* C21: in every state a team has a row in submissions exactly when it has
\* at least one row in team_submissions.
C21_EntryIffAttempt ==
  \A t \in Teams : (EntriesOf(t) # {}) <=> (CountAttempts(t) > 0)
====
